---- MODULE Spec2Model ----
(***************************************************************************)
(* Model of the request-body handling of roadrunner-server/aws-lambda:     *)
(* the bracket-key tokenizer (fetchIndexes), the tree mount algorithm      *)
(* (prepareTreeNode, dataTree.mount, fileTree.mount, push), the upload     *)
(* materializer (FileUpload.Open, Uploads.Clear) and the Lambda handler    *)
(* (Plugin.handler, Plugin.transformBody, parseMultipart).                 *)
(*                                                                         *)
(* A field name and a path segment are sequences of one-character strings. *)
(* A tree (Go: map[string]any, nested) is the set of its slots: one record *)
(* per slot, holding the slot's path from the root, its kind ("branch" for *)
(* a nested tree, "scalar" for a string or a single *FileUpload, "list"    *)
(* for a []string or a []*FileUpload) and its leaf value.                  *)
(***************************************************************************)
EXTENDS Integers, Sequences, FiniteSets, TLC

VARIABLES
    tpc, name, keys,        \* tokenizer run: position, field name, segments
    tk, tree, call,         \* mount run: tree variant, the tree, the last call
    form, order,            \* form run: the request's fields, the keys pushed
    hpc, req, up, out,      \* handler, per request: position, the event, the
                            \* Uploads collection, what the handler produced
    fsys, made              \* the temp files on disk; those each request made

tokVars == <<tpc, name, keys>>

mountVars == <<tk, tree, call>>

formVars == <<form, order>>

handlerVars == <<hpc, req, up, out, fsys, made>>

vars == <<tpc, name, keys, tk, tree, call, form, order,
          hpc, req, up, out, fsys, made>>

----------------------------------------------------------------------------
(* Bounds of the model *)

MaxNameLen == 4

MaxPathLen == 2

MaxMounts == 2

MaxFields == 3

MaxParts == 2

MaxTemp == 2

MaxClears == 2

----------------------------------------------------------------------------
(* Program constants *)

maxLevel == 127

NoErr == ""

ErrMultiple == "invalid multiple values in tree"

ErrStructure == "invalid tree structure: expected fileTree"

----------------------------------------------------------------------------
(* Key path tokenizer: fetchIndexes *)

Alphabet == {"a", "b", " ", "[", "]"}

RECURSIVE SeqsUpTo(_, _)
SeqsUpTo(S, n) ==
    IF n = 0 THEN {<<>>}
    ELSE LET shorter == SeqsUpTo(S, n - 1)
         IN  shorter \cup {Append(s, x) : s \in shorter, x \in S}

Names == SeqsUpTo(Alphabet, MaxNameLen)

\* Mutant of fetchStep: spaces are kept as ordinary characters.
fetchStepKeepSpace(st, ch) ==
    IF ch = "[" THEN [keys |-> st.keys, pos |-> 1]
    ELSE IF ch = "]"
         THEN [keys |-> IF st.pos = 1 THEN Append(st.keys, <<>>) ELSE st.keys,
               pos  |-> 2]
    ELSE LET ks == IF st.pos = 1 \/ st.pos = 2
                   THEN Append(st.keys, <<>>) ELSE st.keys
         IN  [keys |-> [ks EXCEPT ![Len(ks)] = Append(@, ch)], pos |-> 0]

\* One iteration of the loop of fetchIndexes over the character ch.
fetchStep(st, ch) ==
    IF ch = " " THEN st
    ELSE IF ch = "[" THEN [keys |-> st.keys, pos |-> 1]
    ELSE IF ch = "]"
         THEN [keys |-> IF st.pos = 1 THEN Append(st.keys, <<>>) ELSE st.keys,
               pos  |-> 2]
    ELSE LET ks == IF st.pos = 1 \/ st.pos = 2
                   THEN Append(st.keys, <<>>) ELSE st.keys
         IN  [keys |-> [ks EXCEPT ![Len(ks)] = Append(@, ch)], pos |-> 0]

\* The loop of fetchIndexes over the characters s[lo..hi], in order. It is
\* split in halves, and the left half is evaluated before the right half is
\* entered (pos is always 0, 1 or 2), to keep the evaluation of a long name
\* shallow.
RECURSIVE fetchLoop(_, _, _, _)
fetchLoop(s, lo, hi, st) ==
    IF lo > hi THEN st
    ELSE IF lo = hi THEN fetchStep(st, s[lo])
    ELSE LET mid == (lo + hi) \div 2
             left == fetchLoop(s, lo, mid, st)
         IN  IF left.pos \in {0, 1, 2} THEN fetchLoop(s, mid + 1, hi, left)
             ELSE left

\* fetchIndexes(s, &keys) with keys = make([]string, 1), as push calls it.
fetchIndexes(s) ==
    fetchLoop(s, 1, Len(s), [keys |-> << <<>> >>, pos |-> 0]).keys

----------------------------------------------------------------------------
(* Trees *)

IsPrefix(p, q) ==
    Len(p) <= Len(q) /\ SubSeq(q, 1, Len(p)) = p

Has(t, p) ==
    \E e \in t : e.path = p

Node(t, p) ==
    CHOOSE e \in t : e.path = p

IsBranchAt(t, p) ==
    Has(t, p) /\ Node(t, p).kind = "branch"

\* t without the slot p and everything below it.
Drop(t, p) ==
    {e \in t : ~IsPrefix(p, e.path)}

\* tree[k] = make(T), where the tree has no slot k
AddBranch(t, p) ==
    t \cup {[path |-> p, kind |-> "branch", val |-> <<>>]}

\* tree[k] = make(T), where the tree has a slot k
SetBranch(t, p) ==
    Drop(t, p) \cup {[path |-> p, kind |-> "branch", val |-> <<>>]}

\* tree[k] = leaf
SetLeaf(t, p, kind, val) ==
    Drop(t, p) \cup {[path |-> p, kind |-> kind, val |-> val]}

\* Mutant of depthOk: the guard is off by one.
depthOkStrict(ks) ==
    Len(ks) < maxLevel

\* The depth guard of push: len(keys) <= maxLevel.
depthOk(ks) ==
    Len(ks) <= maxLevel

\* Mutant of descendsNamed: the test looks one segment too far.
descendsNamedLate(i) ==
    Len(i) > 2 /\ Len(i[2]) > 0

\* prepareTreeNode: the path wants to descend into a named segment.
descendsNamed(i) ==
    Len(i) > 1 /\ Len(i[2]) > 0

\* Mutant of isLeafNodeIncoming: a path [k, ""] is not taken for a leaf.
isLeafNodeIncomingBare(i) ==
    Len(i) = 1

\* prepareTreeNode: isLeafNodeIncoming
isLeafNodeIncoming(i) ==
    Len(i) = 1 \/ (Len(i) = 2 /\ Len(i[2]) = 0)

\* Mutant of isListEmpty: only the zero-length list is empty.
isListEmptyLenOnly(variant, v) ==
    Len(v) = 0

\* isDataEmpty of an incoming value list ([]string or []*FileUpload; no
\* *FileUpload built by NewUpload is nil).
isListEmpty(variant, v) ==
    \/ Len(v) = 0
    \/ Len(v) = 1 /\ variant = "data" /\ v[1] = ""

\* isDataEmpty of what a slot holds.
isDataEmpty(variant, e) ==
    IF e.kind = "branch" THEN FALSE
    ELSE IF e.kind = "list" THEN isListEmpty(variant, e.val)
    ELSE variant = "data" /\ e.val[1] = ""

\* Mutant of prepareTreeNode: the slot is emptied before a conflict is
\* reported.
prepareTreeNodeEmptying(variant, t, base, i, v) ==
    LET slot == Append(base, i[1])
    IN  IF ~Has(t, slot)
        THEN [tree |-> AddBranch(t, slot), done |-> FALSE, err |-> NoErr]
        ELSE
        LET isBranch == Node(t, slot).kind = "branch"
            isDataInTreeEmpty == isDataEmpty(variant, Node(t, slot))
            isIncomingValueEmpty == isListEmpty(variant, v)
        IN  IF ~isBranch /\ ~isDataInTreeEmpty /\ descendsNamed(i)
            THEN [tree |-> SetBranch(t, slot), done |-> TRUE,
                  err |-> ErrMultiple]
            ELSE IF ~isBranch /\ ~isDataInTreeEmpty /\ isIncomingValueEmpty
            THEN [tree |-> t, done |-> TRUE, err |-> NoErr]
            ELSE IF ~isBranch /\ isDataInTreeEmpty /\ ~isIncomingValueEmpty
            THEN [tree |-> SetBranch(t, slot), done |-> FALSE, err |-> NoErr]
            ELSE IF isBranch /\ isLeafNodeIncoming(i) /\ ~isIncomingValueEmpty
            THEN [tree |-> SetBranch(t, slot), done |-> TRUE,
                  err |-> ErrMultiple]
            ELSE IF isBranch /\ isLeafNodeIncoming(i)
            THEN [tree |-> t, done |-> TRUE, err |-> NoErr]
            ELSE [tree |-> t, done |-> FALSE, err |-> NoErr]

\* prepareTreeNode(tree, i, v) on the node at path base.
prepareTreeNode(variant, t, base, i, v) ==
    LET slot == Append(base, i[1])
    IN  IF ~Has(t, slot)
        THEN [tree |-> AddBranch(t, slot), done |-> FALSE, err |-> NoErr]
        ELSE
        LET isBranch == Node(t, slot).kind = "branch"
            isDataInTreeEmpty == isDataEmpty(variant, Node(t, slot))
            isIncomingValueEmpty == isListEmpty(variant, v)
        IN  IF ~isBranch /\ ~isDataInTreeEmpty /\ descendsNamed(i)
            THEN [tree |-> t, done |-> TRUE, err |-> ErrMultiple]
            ELSE IF ~isBranch /\ ~isDataInTreeEmpty /\ isIncomingValueEmpty
            THEN [tree |-> t, done |-> TRUE, err |-> NoErr]
            ELSE IF ~isBranch /\ isDataInTreeEmpty /\ ~isIncomingValueEmpty
            THEN [tree |-> SetBranch(t, slot), done |-> FALSE, err |-> NoErr]
            ELSE IF isBranch /\ isLeafNodeIncoming(i) /\ ~isIncomingValueEmpty
            THEN [tree |-> t, done |-> TRUE, err |-> ErrMultiple]
            ELSE IF isBranch /\ isLeafNodeIncoming(i)
            THEN [tree |-> t, done |-> TRUE, err |-> NoErr]
            ELSE [tree |-> t, done |-> FALSE, err |-> NoErr]

\* Mutant of scalarOf: both trees store the last element.
scalarOfLast(variant, v) ==
    v[Len(v)]

\* The element a path of length 1 stores: v[len(v)-1] in the data tree,
\* v[0] in the file tree.
scalarOf(variant, v) ==
    IF variant = "data" THEN v[Len(v)] ELSE v[1]

\* One invocation of dataTree.mount / fileTree.mount, on the node at path
\* st.base with the keys st.i: it returns (fin, with the error if any), or it
\* reaches its last line, the call of mount on the sub-tree with the keys
\* st.i[1:], which is the state the next invocation starts from.
mountStep(variant, st, v) ==
    IF st.fin THEN st
    ELSE IF Len(st.i) = 0 THEN [st EXCEPT !.fin = TRUE]
    ELSE
    LET i == st.i
        r == prepareTreeNode(variant, st.tree, st.base, i, v)
        slot == Append(st.base, i[1])
        return(t, e) == [tree |-> t, base |-> st.base, i |-> i, fin |-> TRUE,
                         err |-> e]
        descend(t) == [tree |-> t, base |-> slot, i |-> Tail(i), fin |-> FALSE,
                       err |-> NoErr]
    IN  IF r.err # NoErr THEN return(r.tree, r.err)
        ELSE IF r.done THEN return(r.tree, NoErr)
        ELSE IF Len(i) = 2 /\ i[2] = <<>>
        THEN return(SetLeaf(r.tree, slot, "list", v), NoErr)
        ELSE IF Len(i) = 1 /\ Len(v) > 0
        THEN return(SetLeaf(r.tree, slot, "scalar", <<scalarOf(variant, v)>>),
                    NoErr)
        ELSE IF Len(i) = 1
        THEN return(SetLeaf(r.tree, slot, "list", v), NoErr)
        ELSE IF IsBranchAt(r.tree, slot) THEN descend(r.tree)
        ELSE IF variant = "data" THEN descend(SetBranch(r.tree, slot))
        ELSE return(r.tree, ErrStructure)

\* n successive invocations (an invocation after the return changes nothing).
\* The recursion of mount is a tail call: its chain of invocations is run
\* here in halves, which keeps the evaluation of a 127-segment path shallow.
RECURSIVE mountRun(_, _, _, _)
mountRun(variant, st, n, v) ==
    IF n <= 1 THEN mountStep(variant, st, v)
    ELSE LET h == n \div 2
             left == mountRun(variant, st, h, v)
         IN  IF left.fin THEN left ELSE mountRun(variant, left, n - h, v)

\* dataTree.mount / fileTree.mount on the node at path base: every
\* invocation consumes one key, so Len(i) + 1 invocations reach the return.
mount(variant, t, base, i, v) ==
    LET r == mountRun(variant,
                      [tree |-> t, base |-> base, i |-> i, fin |-> FALSE,
                       err |-> NoErr],
                      Len(i) + 1, v)
    IN  [tree |-> r.tree, err |-> r.err]

\* dataTree.push / fileTree.push
push(variant, t, k, v) ==
    LET ks == fetchIndexes(k)
    IN  IF depthOk(ks) THEN mount(variant, t, <<>>, ks, v)
        ELSE [tree |-> t, err |-> NoErr]

----------------------------------------------------------------------------
(* Tokenizer runs: one field name, tokenized once *)

NoCall == [n |-> 0, pre |-> {}, keys |-> <<>>, v |-> <<>>, err |-> NoErr]

MountIdle ==
    tk = "data" /\ tree = {} /\ call = NoCall

TokIdle ==
    tpc = "idle" /\ name = <<>> /\ keys = <<>>

FormIdle ==
    form = <<>> /\ order = <<>>

\* The requests the Lambda runtime may hand to the handler at a time.
Reqs == {1, 2}

NoEvent ==
    [method |-> "", ct |-> <<>>, b64 |-> "no", wellformed |-> TRUE,
     fields |-> <<>>, files |-> <<>>]

NoUploads == [tree |-> {}, list |-> <<>>, next |-> 1, set |-> FALSE,
     opened |-> <<>>]

NoOutput ==
    [status |-> 0, body |-> <<>>, parsed |-> FALSE, uploads |-> <<>>,
     cleanup |-> FALSE, execs |-> 0, cleared |-> 0,
     bytes |-> <<>>, class |-> 0, goerr |-> "none"]

HandlerIdle ==
    /\ hpc = [r \in Reqs |-> "off"]
    /\ req = [r \in Reqs |-> NoEvent]
    /\ up = [r \in Reqs |-> NoUploads]
    /\ out = [r \in Reqs |-> NoOutput]
    /\ fsys = {}
    /\ made = [r \in Reqs |-> {}]

InitTok ==
    /\ tpc = "call"
    /\ name \in Names
    /\ keys = << <<>> >>
    /\ MountIdle
    /\ FormIdle
    /\ HandlerIdle

Tokenize ==
    /\ tpc = "call"
    /\ keys' = fetchIndexes(name)
    /\ tpc' = "done"
    /\ UNCHANGED <<name, tk, tree, call, form, order>>
    /\ UNCHANGED handlerVars

NextTok == Tokenize

SpecTok == InitTok /\ [][NextTok]_vars

----------------------------------------------------------------------------
(* Mount runs: mount called on the root node of a tree that earlier mount   *)
(* calls built, with any path and any value list                            *)

Segs == {<<"a">>, <<"b">>, <<>>}

\* The paths of the calls: a named first segment, then any segments.
Paths == {p \in SeqsUpTo(Segs, MaxPathLen) : Len(p) >= 1 /\ p[1] # <<>>}

\* The value lists a parsed form hands to push: net/http appends to the list
\* of a key, so none is zero-length.
DataVals == {<<"">>, <<"1">>, <<"1", "">>}

\* The *FileUpload values of the n-th call: NewUpload allocates each anew.
FileVals(n) == {<<2 * n + 1>>, <<2 * n + 1, 2 * n + 2>>}

InitMount ==
    /\ tk \in {"data", "file"}
    /\ tree = {}
    /\ call = NoCall
    /\ TokIdle
    /\ FormIdle
    /\ HandlerIdle

DoMount(variant, i, v) ==
    LET r == mount(variant, tree, <<>>, i, v)
    IN  /\ tk = variant
        /\ DOMAIN form = {}
        /\ call.n < MaxMounts
        /\ call.err = NoErr
        /\ tree' = r.tree
        /\ call' = [n |-> call.n + 1, pre |-> tree, keys |-> i, v |-> v,
                    err |-> r.err]
        /\ UNCHANGED <<tk, tpc, name, keys, form, order>>
        /\ UNCHANGED handlerVars

DataMount ==
    \E i \in Paths, v \in DataVals : DoMount("data", i, v)

FileMount ==
    \E i \in Paths, v \in FileVals(call.n) : DoMount("file", i, v)

NextMount == DataMount \/ FileMount

SpecMount == InitMount /\ [][NextMount]_vars

\* The same runs with the zero-length list among the values: mount accepts
\* it (the last terminal case of mount), though no parsed form produces it.
DataMountAny ==
    \E i \in Paths, v \in DataVals \cup {<<>>} : DoMount("data", i, v)

FileMountAny ==
    \E i \in Paths, v \in FileVals(call.n) \cup {<<>>} : DoMount("file", i, v)

NextMountAny == DataMountAny \/ FileMountAny

SpecMountAny == InitMount /\ [][NextMountAny]_vars

----------------------------------------------------------------------------
(* Form runs: parsePostForm / parseMultipartData push the fields of one     *)
(* request into a fresh data tree, in the order Go's map iteration yields   *)

\* A well-formed key of n segments: d[x][x]...[x]
DeepKey(n) ==
    [j \in 1..(3 * n - 2) |->
        IF j = 1 THEN "d"
        ELSE IF j % 3 = 2 THEN "["
        ELSE IF j % 3 = 0 THEN "x"
        ELSE "]"]

kA == <<"a">>

kAB == <<"a", "[", "b", "]">>

kAList == <<"a", "[", "]">>

kAListC == <<"a", "[", "]", "[", "c", "]">>

kSpaceA == <<" ", "a">>

kFullName == <<"f", "u", "l", "l", "_", "n", "a", "m", "e">>

kNestedOne == <<"n", "e", "s", "t", "e", "d", "[", "o", "n", "e", "]">>

kTags == <<"t", "a", "g", "s", "[", "]">>

kDeepIn == DeepKey(maxLevel)

kDeepOut == DeepKey(maxLevel + 1)

FormKeys ==
    {kA, kAB, kAList, kAListC, kSpaceA, kDeepIn, kDeepOut}

\* The value lists a request may carry under a key.
FieldVals(k) ==
    IF k \in {kDeepIn, kDeepOut} THEN {<<"1">>}
    ELSE IF k = kA THEN {<<"1">>, <<"">>, <<"1", "">>}
    ELSE {<<"2">>, <<"">>}

AllFieldVals == UNION {FieldVals(k) : k \in FormKeys}

\* full_name=Ada+Lovelace&nested[one]=1&tags[]=a&tags[]=b, as net/http
\* parses it ("Ada+Lovelace" arrives as "Ada Lovelace").
ExampleForm ==
    (kFullName :> <<"Ada Lovelace">>) @@ (kNestedOne :> <<"1">>)
        @@ (kTags :> <<"a", "b">>)

\* r.PostForm / r.MultipartForm.Value: a map from keys to value lists.
Forms ==
    {ExampleForm} \cup
    UNION {{f \in [K -> AllFieldVals] : \A k \in K : f[k] \in FieldVals(k)} :
           K \in {K \in SUBSET FormKeys : Cardinality(K) <= MaxFields}}

Pushed == {order[j] : j \in 1..Len(order)}

InitForm ==
    /\ form \in Forms
    /\ order = <<>>
    /\ tk = "data"
    /\ tree = {}
    /\ call = NoCall
    /\ TokIdle
    /\ HandlerIdle

\* One iteration of the range loop: data.push(k, v), and the return on error.
PushField ==
    \E k \in (DOMAIN form) \ Pushed :
        LET r == push("data", tree, k, form[k])
        IN  /\ call.err = NoErr
            /\ tree' = r.tree
            /\ call' = [n |-> call.n + 1, pre |-> tree,
                        keys |-> fetchIndexes(k), v |-> form[k], err |-> r.err]
            /\ order' = Append(order, k)
            /\ UNCHANGED <<tk, form, tpc, name, keys>>
            /\ UNCHANGED handlerVars

NextForm == PushField

SpecForm == InitForm /\ [][NextForm]_vars

\* Mount runs (zero-length lists included) and form runs together.
InitTerminal == InitMount \/ InitForm

NextTerminal == NextMountAny \/ NextForm

SpecTerminal == InitTerminal /\ [][NextTerminal]_vars

----------------------------------------------------------------------------
(* The Lambda handler: Plugin.handler, Plugin.transformBody, parseURLEncoded, *)
(* parseMultipart, parseUploads, FileUpload.Open, Uploads.Clear              *)

contentNone == 901

contentStream == 902

contentMultipart == 903

contentURLEncoded == 904

uploadErrorOK == 0

uploadErrorNoFile == 4

uploadErrorNoTmpDir == 6

uploadErrorCantWrite == 7

\* TempFilename == "": no temp file
NoTemp == 0

\* The names os.CreateTemp may give a temp file.
TempNames == 1..MaxTemp

\* A content-type header is a sequence of pieces; the two media types the
\* classifier looks for occur in it as whole pieces or not at all.
ctJSON == <<"application/json">>

ctForm == <<"application/x-www-form-urlencoded">>

ctMulti == <<"multipart/form-data", "; boundary=----demo">>

ctMultiMixed == <<"Multipart/Form-Data", "; boundary=----demo">>

\* strings.ToLower on a header, piece by piece.
ToLower(ct) ==
    [j \in DOMAIN ct |->
        IF ct[j] = "Multipart/Form-Data" THEN "multipart/form-data" ELSE ct[j]]

\* strings.Contains(ct, piece)
Contains(ct, piece) ==
    \E j \in 1..Len(ct) : ct[j] = piece

\* Mutant of contentType: the method is not looked at.
contentTypeAnyMethod(method, ct) ==
    IF Contains(ct, "application/x-www-form-urlencoded")
    THEN contentURLEncoded
    ELSE IF Contains(ct, "multipart/form-data") THEN contentMultipart
    ELSE contentStream

\* Mutant of contentType: multipart/form-data is looked for first.
contentTypeMultipartFirst(method, ct) ==
    IF method = "HEAD" \/ method = "OPTIONS" THEN contentNone
    ELSE IF Contains(ct, "multipart/form-data") THEN contentMultipart
    ELSE IF Contains(ct, "application/x-www-form-urlencoded")
    THEN contentURLEncoded
    ELSE contentStream

\* contentType(method, ct)
contentType(method, ct) ==
    IF method = "HEAD" \/ method = "OPTIONS" THEN contentNone
    ELSE IF Contains(ct, "application/x-www-form-urlencoded")
    THEN contentURLEncoded
    ELSE IF Contains(ct, "multipart/form-data") THEN contentMultipart
    ELSE contentStream

Methods == {"POST", "HEAD", "OPTIONS"}

EmptyForm == [k \in {} |-> <<>>]

\* The regular fields of the requests handled: none, one field, and a key used
\* as a scalar and as a container; DeepForm has one field deeper than maxLevel.
HandlerForms ==
    {EmptyForm, (kA :> <<"1">>), (kA :> <<"1">>) @@ (kAB :> <<"2">>)}

DeepForm == (kDeepOut :> <<"1">>)

kFile == <<"f", "i", "l", "e">>

kFileList == kFile \o <<"[", "]">>

kSpaceFile == <<" ">> \o kFile

kFileSub == kFile \o <<"[", "x", "]">>

FileKeys == {kFile, kFileList, kSpaceFile, kFileSub, kDeepOut}

\* File parts (multipart.FileHeader): declared filename, declared MIME type,
\* number of content bytes.
PartPng == [Filename |-> "demo.png", Mime |-> "image/png", Size |-> 4]

PartTxt == [Filename |-> "notes.txt", Mime |-> "text/plain", Size |-> 1]

FileParts(k) ==
    IF k = kFile THEN {<<PartPng>>, <<PartPng, PartTxt>>}
    ELSE IF k = kFileList THEN {<<PartTxt>>, <<PartPng, PartTxt>>}
    ELSE {<<PartTxt>>}

AllFileParts == UNION {FileParts(k) : k \in FileKeys}

RECURSIVE SumLen(_, _)
SumLen(f, K) ==
    IF K = {} THEN 0
    ELSE LET k == CHOOSE x \in K : TRUE
         IN  Len(f[k]) + SumLen(f, K \ {k})

\* r.MultipartForm.File: a map from keys to lists of file parts.
FileForms ==
    UNION {{f \in [K -> AllFileParts] :
                /\ \A k \in K : f[k] \in FileParts(k)
                /\ SumLen(f, K) <= MaxParts} :
           K \in SUBSET FileKeys}

\* The events handed to the handler: method, content-type header, base64
\* flag ("no": not flagged, "ok": flagged and valid, "bad": flagged and not
\* valid base64), whether the body parses as its content type demands, and
\* the regular fields and file parts the body carries when it parses.
\* json.Marshal and packDataTree do not fail on the trees built from them.
Events ==
    {[method |-> mt, ct |-> ctJSON, b64 |-> b, wellformed |-> TRUE,
      fields |-> EmptyForm, files |-> EmptyForm] :
        mt \in Methods, b \in {"no", "ok", "bad"}}
    \cup
    {[method |-> mt, ct |-> ctForm, b64 |-> b, wellformed |-> TRUE,
      fields |-> f, files |-> EmptyForm] :
        mt \in Methods, b \in {"no", "ok", "bad"},
        f \in HandlerForms \cup {DeepForm}}
    \cup
    {[method |-> mt, ct |-> ctMulti, b64 |-> b, wellformed |-> TRUE,
      fields |-> f, files |-> g] :
        mt \in Methods, b \in {"no", "bad"}, f \in HandlerForms,
        g \in FileForms}
    \cup
    {[method |-> mt, ct |-> c, b64 |-> b, wellformed |-> TRUE,
      fields |-> f, files |-> g] :
        mt \in Methods, c \in {ctMulti, ctMultiMixed},
        b \in {"no", "ok", "bad"}, f \in HandlerForms \cup {DeepForm},
        g \in {EmptyForm, (kFile :> <<PartPng>>)}}
    \cup
    {[method |-> mt, ct |-> c, b64 |-> b, wellformed |-> FALSE,
      fields |-> EmptyForm, files |-> EmptyForm] :
        mt \in Methods, c \in {ctForm, ctMulti}, b \in {"no", "ok"}}

\* The orders in which a range loop may visit the keys S of a map.
Perms(S) ==
    {p \in [1..Cardinality(S) -> S] :
        \A i, j \in 1..Cardinality(S) : i # j => p[i] # p[j]}

\* Mutant of pushAll: a field that fails is skipped and the loop goes on.
RECURSIVE pushAllLenient(_, _, _)
pushAllLenient(t, f, ord) ==
    IF ord = <<>> THEN [tree |-> t, err |-> NoErr]
    ELSE LET r == push("data", t, Head(ord), f[Head(ord)])
         IN  IF r.err # NoErr THEN pushAllLenient(t, f, Tail(ord))
             ELSE pushAllLenient(r.tree, f, Tail(ord))

\* The range loop of parsePostForm / parseMultipartData over the fields f,
\* visited in the order ord: (data, nil), or (nil, err) at the first error.
RECURSIVE pushAll(_, _, _)
pushAll(t, f, ord) ==
    IF ord = <<>> THEN [tree |-> t, err |-> NoErr]
    ELSE LET r == push("data", t, Head(ord), f[Head(ord)])
         IN  IF r.err # NoErr THEN [tree |-> {}, err |-> r.err]
             ELSE pushAll(r.tree, f, Tail(ord))

\* Mutant of packDataTree: a tree without entries is marshalled as a nil map.
packDataTreeNull(t) ==
    IF Cardinality(t) = 0 THEN <<"null">> ELSE <<"{", t, "}">>

\* packDataTree
packDataTree(t) ==
    IF Cardinality(t) = 0 THEN <<"{", "}">> ELSE <<"{", t, "}">>

\* NewUpload
NewUpload(f) ==
    [Name |-> f.Filename, Mime |-> f.Mime, Size |-> 0, Error |-> uploadErrorOK,
     TempFilename |-> NoTemp, header |-> f]

\* Mutant of appendFiles: only the first file of a key is listed.
appendFirstFile(list, files) ==
    Append(list, files[1])

\* u.list = append(u.list, files...)
appendFiles(list, files) ==
    list \o files

\* The range loop of parseUploads over the file parts g, visited in the order
\* ord. A *FileUpload is named by its index in u.list.
RECURSIVE parseUploadsLoop(_, _, _)
parseUploadsLoop(u, g, ord) ==
    IF ord = <<>> THEN u
    ELSE
    LET k == Head(ord)
        files == [j \in 1..Len(g[k]) |-> NewUpload(g[k][j])]
        ptrs == [j \in 1..Len(g[k]) |-> Len(u.list) + j]
        list == appendFiles(u.list, files)
        r == push("file", u.tree, k, ptrs)
    IN  IF r.err # NoErr THEN [tree |-> {}, list |-> <<>>, err |-> r.err]
        ELSE parseUploadsLoop([tree |-> r.tree, list |-> list, err |-> NoErr],
                              g, Tail(ord))

\* parseUploads
parseUploads(g, ord) ==
    parseUploadsLoop([tree |-> {}, list |-> <<>>, err |-> NoErr], g, ord)

\* Mutant of Open: the size recorded is the size before the copy.
OpenNoSize(d, outcome, tmp, written) ==
    IF outcome = "nofile" THEN [d EXCEPT !.Error = uploadErrorNoFile]
    ELSE IF outcome = "notmp" THEN [d EXCEPT !.Error = uploadErrorNoTmpDir]
    ELSE IF outcome = "cantwrite"
    THEN [d EXCEPT !.TempFilename = tmp, !.Size = written,
                   !.Error = uploadErrorCantWrite]
    ELSE [d EXCEPT !.TempFilename = tmp]

\* Mutant of Open: a failed copy leaves the error code untouched.
OpenCopyUnchecked(d, outcome, tmp, written) ==
    IF outcome = "nofile" THEN [d EXCEPT !.Error = uploadErrorNoFile]
    ELSE IF outcome = "notmp" THEN [d EXCEPT !.Error = uploadErrorNoTmpDir]
    ELSE IF outcome = "cantwrite"
    THEN [d EXCEPT !.TempFilename = tmp, !.Size = written]
    ELSE [d EXCEPT !.TempFilename = tmp, !.Size = d.header.Size]

\* FileUpload.Open: the part cannot be opened ("nofile"), the temp file
\* cannot be created ("notmp"), the copy fails after written bytes
\* ("cantwrite"), or all succeed ("ok"); tmp is the name os.CreateTemp gave.
Open(d, outcome, tmp, written) ==
    IF outcome = "nofile" THEN [d EXCEPT !.Error = uploadErrorNoFile]
    ELSE IF outcome = "notmp" THEN [d EXCEPT !.Error = uploadErrorNoTmpDir]
    ELSE IF outcome = "cantwrite"
    THEN [d EXCEPT !.TempFilename = tmp, !.Size = written,
                   !.Error = uploadErrorCantWrite]
    ELSE [d EXCEPT !.TempFilename = tmp, !.Size = d.header.Size]

\* exists(path)
exists(fs, path) ==
    path \in fs

\* Mutant of clearStep: only the files of uploads without error are removed.
clearStepOkOnly(fs, d) ==
    IF d.TempFilename # NoTemp /\ exists(fs, d.TempFilename)
          /\ d.Error = uploadErrorOK
    THEN fs \ {d.TempFilename}
    ELSE fs

\* The body of the loop of Uploads.Clear on the file system fs: os.Remove of
\* the descriptor's temp file when it has one and the file exists.
clearStep(fs, d) ==
    IF d.TempFilename # NoTemp /\ exists(fs, d.TempFilename)
    THEN fs \ {d.TempFilename}
    ELSE fs

\* Uploads.Clear: the file system after the loop over u.list.
RECURSIVE Clear(_, _)
Clear(fs, list) ==
    IF list = <<>> THEN fs
    ELSE Clear(clearStep(fs, Head(list)), Tail(list))

\* The fields of a FileUpload that have a json tag.
Exported(d) ==
    [name |-> d.Name, mime |-> d.Mime, size |-> d.Size, error |-> d.Error,
     tmpName |-> d.TempFilename]

\* Uploads.MarshalJSON: json.Marshal(u.tree), "{}" for a tree without entries.
MarshalJSON(u) ==
    IF u.tree = {} THEN <<"{", "}">>
    ELSE <<"{",
           {[path |-> n.path, kind |-> n.kind,
             val |-> [j \in DOMAIN n.val |-> Exported(u.list[n.val[j]])]] :
                n \in u.tree},
           "}">>

\* The temp files the descriptors of a list refer to.
ClearedFiles(list) ==
    {list[j].TempFilename : j \in 1..Len(list)} \ {NoTemp}

InitHandler ==
    /\ \E e \in Events :
          req = [r \in Reqs |-> IF r = 1 THEN e ELSE NoEvent]
    /\ hpc = [r \in Reqs |-> IF r = 1 THEN "decode" ELSE "off"]
    /\ up = [r \in Reqs |-> NoUploads]
    /\ out = [r \in Reqs |-> NoOutput]
    /\ fsys = {}
    /\ made = [r \in Reqs |-> {}]
    /\ TokIdle
    /\ MountIdle
    /\ FormIdle

Goto(r, label) ==
    hpc' = [hpc EXCEPT ![r] = label]

\* return events.APIGatewayV2HTTPResponse{StatusCode: code}, nil
\* before "defer cleanup()" is reached
ReturnEarly(r, code) ==
    /\ out' = [out EXCEPT ![r].status = code, ![r].goerr = "nil"]
    /\ Goto(r, "done")

\* request.Body: a text, or the base64 encoding of one, valid or not.
RequestBody(e) ==
    IF e.b64 = "no" THEN <<"text", "payload">>
    ELSE IF e.b64 = "ok" THEN <<"base64", "payload">>
    ELSE <<"base64", "?">>

\* base64.StdEncoding.DecodeString
DecodeString(b) ==
    IF b[1] = "base64" /\ b[2] # "?"
    THEN [ok |-> TRUE, bytes |-> <<"text", b[2]>>]
    ELSE [ok |-> FALSE, bytes |-> <<>>]

\* Mutant of decodedBody: the body is passed on as it came.
decodedBodyAsSent(e) ==
    [ok |-> DecodeString(RequestBody(e)).ok \/ e.b64 = "no",
     bytes |-> RequestBody(e)]

\* The local variable body after the handler's lines 138-145.
decodedBody(e) ==
    IF e.b64 = "no" THEN [ok |-> TRUE, bytes |-> RequestBody(e)]
    ELSE DecodeString(RequestBody(e))

\* handler, lines 138-145: the base64 decoding of the body.
Decode(r) ==
    /\ hpc[r] = "decode"
    /\ LET d == decodedBody(req[r])
       IN  IF ~d.ok
           THEN ReturnEarly(r, 400)
           ELSE /\ out' = [out EXCEPT ![r].bytes = d.bytes]
                /\ Goto(r, "transform")
    /\ UNCHANGED <<req, up, fsys, made>>
    /\ UNCHANGED <<tokVars, mountVars, formVars>>

\* transformBody on a request that is not multipart, and the handler's lines
\* 148-157 after it.
TransformPlain(r) ==
    /\ hpc[r] = "transform"
    /\ LET class == contentType(req[r].method, ToLower(req[r].ct))
       IN  /\ class # contentMultipart
           /\ IF class = contentNone
              THEN /\ out' = [out EXCEPT ![r].body = <<>>, ![r].parsed = FALSE,
                                         ![r].uploads = <<>>]
                   /\ Goto(r, "proto")
              ELSE IF class = contentStream
              THEN /\ out' = [out EXCEPT ![r].body = out[r].bytes,
                                         ![r].parsed = FALSE,
                                         ![r].uploads = <<>>]
                   /\ Goto(r, "proto")
              ELSE IF ~req[r].wellformed
              THEN ReturnEarly(r, 400)
              ELSE \E ord \in Perms(DOMAIN req[r].fields) :
                     LET d == pushAll({}, req[r].fields, ord)
                     IN  IF d.err # NoErr
                         THEN ReturnEarly(r, 400)
                         ELSE /\ out' = [out EXCEPT
                                          ![r].body = packDataTree(d.tree),
                                          ![r].parsed = TRUE,
                                          ![r].uploads = <<>>]
                              /\ Goto(r, "proto")
    /\ UNCHANGED <<req, up, fsys, made>>
    /\ UNCHANGED <<tokVars, mountVars, formVars>>

\* transformBody on a multipart request, up to parseUploads: lines 143-159.
ParseUploads(r) ==
    /\ hpc[r] = "transform"
    /\ contentType(req[r].method, ToLower(req[r].ct)) = contentMultipart
    /\ IF ~req[r].wellformed
       THEN ReturnEarly(r, 400) /\ UNCHANGED up
       ELSE \E ord \in Perms(DOMAIN req[r].files) :
              LET u == parseUploads(req[r].files, ord)
              IN  IF u.err # NoErr
                  THEN ReturnEarly(r, 400) /\ UNCHANGED up
                  ELSE /\ up' = [up EXCEPT ![r] =
                                   [tree |-> u.tree, list |-> u.list,
                                    next |-> 1, set |-> TRUE,
                                    opened |-> <<>>]]
                       /\ Goto(r, "open")
                       /\ UNCHANGED out
    /\ UNCHANGED <<req, fsys, made>>
    /\ UNCHANGED <<tokVars, mountVars, formVars>>

\* Mutant of createTemp: the name may be the name of an existing file.
createTempAny(fs) ==
    TempNames

\* The names os.CreateTemp may give the new file in the temp directory fs: it
\* creates the file exclusively, so never under the name of a file in fs.
createTemp(fs) ==
    TempNames \ fs

\* One iteration of "for _, f := range uploads.list { _ = f.Open() }".
\* os.CreateTemp gives a name no existing file has, or fails. up[r].opened
\* keeps what happened to each part, for the properties.
OpenFile(r) ==
    /\ hpc[r] = "open"
    /\ up[r].next <= Len(up[r].list)
    /\ LET j == up[r].next
           d == up[r].list[j]
       IN  \E outcome \in {"ok", "nofile", "notmp", "cantwrite"},
              tmp \in createTemp(fsys) \cup {NoTemp},
              written \in {0, d.header.Size} :
             /\ outcome \in {"ok", "cantwrite"} <=> tmp # NoTemp
             /\ outcome # "cantwrite" => written = 0
             /\ up' = [up EXCEPT ![r].list[j] = Open(d, outcome, tmp, written),
                                 ![r].next = j + 1,
                                 ![r].opened = Append(@, outcome)]
             /\ IF tmp # NoTemp
                THEN /\ fsys' = fsys \cup {tmp}
                     /\ made' = [made EXCEPT ![r] = @ \cup {tmp}]
                ELSE UNCHANGED <<fsys, made>>
    /\ UNCHANGED <<hpc, req, out>>
    /\ UNCHANGED <<tokVars, mountVars, formVars>>

\* parseMultipart after the Open loop (lines 164-174), the rest of
\* transformBody (lines 419-437) and the handler's lines 148-157. An error of
\* parseMultipartData returns through "return nil, nil, err", transformBody
\* hands the handler a nil cleanup with it, and the handler answers 400 above
\* its "defer cleanup()".
ParseData(r) ==
    /\ hpc[r] = "open"
    /\ up[r].next > Len(up[r].list)
    /\ \E ord \in Perms(DOMAIN req[r].fields) :
         LET d == pushAll({}, req[r].fields, ord)
         IN  /\ IF d.err # NoErr
                THEN ReturnEarly(r, 400)
                ELSE /\ out' = [out EXCEPT
                                 ![r].body = packDataTree(d.tree),
                                 ![r].parsed = TRUE,
                                 ![r].uploads = MarshalJSON(up[r]),
                                 ![r].cleanup = TRUE]
                     /\ Goto(r, "proto")
    /\ UNCHANGED <<req, up, fsys, made>>
    /\ UNCHANGED <<tokVars, mountVars, formVars>>

\* proto.Marshal(reqProto), lines 159-165
ProtoMarshal(r) ==
    /\ hpc[r] = "proto"
    /\ \E ok \in BOOLEAN :
         IF ok THEN Goto(r, "exec") /\ UNCHANGED out
         ELSE /\ out' = [out EXCEPT ![r].status = 500]
              /\ Goto(r, "defer")
    /\ UNCHANGED <<req, up, fsys, made>>
    /\ UNCHANGED <<tokVars, mountVars, formVars>>

\* p.wrkPool.Exec(ctx, pld, nil), lines 167-170
Exec(r) ==
    /\ hpc[r] = "exec"
    /\ \E ok \in BOOLEAN :
         IF ok
         THEN /\ out' = [out EXCEPT ![r].execs = @ + 1]
              /\ Goto(r, "wait")
         ELSE /\ out' = [out EXCEPT ![r].execs = @ + 1, ![r].status = 500]
              /\ Goto(r, "defer")
    /\ UNCHANGED <<req, up, fsys, made>>
    /\ UNCHANGED <<tokVars, mountVars, formVars>>

\* The select on the result channel and handlePROTOresponse, lines 172-196:
\* the worker's response with the status the worker chose (200 or 400 here),
\* or one of the failures answered with 500.
Respond(r) ==
    /\ hpc[r] = "wait"
    /\ \E code \in {200, 400, 500} :
         out' = [out EXCEPT ![r].status = code]
    /\ Goto(r, "defer")
    /\ UNCHANGED <<req, up, fsys, made>>
    /\ UNCHANGED <<tokVars, mountVars, formVars>>

\* Mutant of Cleanup: cleanup() is called while the worker's response is
\* awaited, not deferred to the handler's return.
CleanupEarly(r) ==
    /\ hpc[r] = "wait"
    /\ IF out[r].cleanup
       THEN /\ fsys' = Clear(fsys, up[r].list)
            /\ out' = [out EXCEPT ![r].cleared = @ + 1, ![r].goerr = "nil"]
       ELSE /\ fsys' = fsys
            /\ out' = [out EXCEPT ![r].goerr = "nil"]
    /\ Goto(r, "done")
    /\ UNCHANGED <<req, up, made>>
    /\ UNCHANGED <<tokVars, mountVars, formVars>>

\* The deferred cleanup() at the handler's return: Uploads.Clear when
\* transformBody returned a cleanup, func() {} otherwise.
Cleanup(r) ==
    /\ hpc[r] = "defer"
    /\ IF out[r].cleanup
       THEN /\ fsys' = Clear(fsys, up[r].list)
            /\ out' = [out EXCEPT ![r].cleared = @ + 1, ![r].goerr = "nil"]
       ELSE /\ fsys' = fsys
            /\ out' = [out EXCEPT ![r].goerr = "nil"]
    /\ Goto(r, "done")
    /\ UNCHANGED <<req, up, made>>
    /\ UNCHANGED <<tokVars, mountVars, formVars>>

NextHandler ==
    \E r \in Reqs :
        \/ Decode(r)
        \/ TransformPlain(r)
        \/ ParseUploads(r)
        \/ OpenFile(r)
        \/ ParseData(r)
        \/ ProtoMarshal(r)
        \/ Exec(r)
        \/ Respond(r)
        \/ Cleanup(r)

Spec == InitHandler /\ [][NextHandler]_vars

----------------------------------------------------------------------------
(* Classifier runs: contentType called on its own with any method and any   *)
(* content type, as TestContentTypeClassification does                       *)

ClassifyMethods ==
    {"GET", "POST", "PUT", "PATCH", "DELETE", "HEAD", "OPTIONS", "head"}

ClassifyTypes ==
    {<<>>, ctJSON, ctForm, ctMulti, ctMultiMixed,
     <<"multipart/form-data">>,
     <<"application/x-www-form-urlencoded", "; charset=utf-8">>,
     <<"multipart/form-data", "; boundary=", "application/x-www-form-urlencoded">>,
     <<"application/x-www-form-urlencoded", ", ", "multipart/form-data">>,
     <<"text/plain", "; note=", "multipart/form-data">>}

InitClassify ==
    /\ \E mt \in ClassifyMethods, c \in ClassifyTypes :
          req = [r \in Reqs |->
                    IF r = 1 THEN [NoEvent EXCEPT !.method = mt, !.ct = c]
                    ELSE NoEvent]
    /\ hpc = [r \in Reqs |-> IF r = 1 THEN "classify" ELSE "off"]
    /\ up = [r \in Reqs |-> NoUploads]
    /\ out = [r \in Reqs |-> NoOutput]
    /\ fsys = {}
    /\ made = [r \in Reqs |-> {}]
    /\ TokIdle
    /\ MountIdle
    /\ FormIdle

\* got := contentType(tt.method, tt.ct)
Classify(r) ==
    /\ hpc[r] = "classify"
    /\ out' = [out EXCEPT ![r].class = contentType(req[r].method, req[r].ct)]
    /\ Goto(r, "classified")
    /\ UNCHANGED <<req, up, fsys, made>>
    /\ UNCHANGED <<tokVars, mountVars, formVars>>

NextClassify == \E r \in Reqs : Classify(r)

SpecClassify == InitClassify /\ [][NextClassify]_vars

----------------------------------------------------------------------------
(* Concurrent runs: the Lambda runtime invokes the handler for two requests  *)
(* at once; the invocations share nothing but the temp directory             *)

ConcEvents ==
    {e \in Events :
        /\ e.method = "POST" /\ e.b64 = "no" /\ e.wellformed
        /\ \/ e.ct = ctJSON
           \/ /\ e.ct = ctMulti
              /\ DOMAIN e.files = {kFile}
              /\ DOMAIN e.fields \in {{}, {kA, kAB}}}

InitConc ==
    /\ req \in [Reqs -> ConcEvents]
    /\ hpc = [r \in Reqs |-> "decode"]
    /\ up = [r \in Reqs |-> NoUploads]
    /\ out = [r \in Reqs |-> NoOutput]
    /\ fsys = {}
    /\ made = [r \in Reqs |-> {}]
    /\ TokIdle
    /\ MountIdle
    /\ FormIdle

SpecConc == InitConc /\ [][NextHandler]_vars

----------------------------------------------------------------------------
(* Release runs: parseMultipart called on its own, then Uploads.Clear called *)
(* by the caller, as TestParseMultipartReturnsFieldsAndUploads does, while   *)
(* files may also disappear from the temp directory behind its back          *)

\* A file of another process in the temp directory.
ForeignFile == MaxTemp

InitClear ==
    /\ \E e \in Events :
          /\ e.method = "POST" /\ e.ct = ctMulti
          /\ e.b64 = "no" /\ e.wellformed
          /\ DOMAIN e.files # {}
          /\ req = [r \in Reqs |-> IF r = 1 THEN e ELSE NoEvent]
    /\ hpc = [r \in Reqs |-> IF r = 1 THEN "transform" ELSE "off"]
    /\ up = [r \in Reqs |-> NoUploads]
    /\ out = [r \in Reqs |-> NoOutput]
    /\ fsys \in {{}, {ForeignFile}}
    /\ made = [r \in Reqs |-> {}]
    /\ TokIdle
    /\ MountIdle
    /\ FormIdle

\* uploads.Clear() called on the Uploads parseMultipart returned.
ClearCall(r) ==
    /\ hpc[r] = "proto"
    /\ out[r].cleared < MaxClears
    /\ fsys' = Clear(fsys, up[r].list)
    /\ out' = [out EXCEPT ![r].cleared = @ + 1]
    /\ UNCHANGED <<hpc, req, up, made>>
    /\ UNCHANGED <<tokVars, mountVars, formVars>>

\* A file is removed from the temp directory by something else.
RemoveOutside ==
    /\ \E f \in fsys : fsys' = fsys \ {f}
    /\ UNCHANGED <<hpc, req, up, out, made>>
    /\ UNCHANGED <<tokVars, mountVars, formVars>>

NextClear ==
    \/ \E r \in Reqs :
        \/ ParseUploads(r)
        \/ OpenFile(r)
        \/ ParseData(r)
        \/ ClearCall(r)
    \/ RemoveOutside

SpecClear == InitClear /\ [][NextClear]_vars

----------------------------------------------------------------------------
(* Vocabulary of the mount properties, stated without the code's helpers *)

\* An empty incoming value: a zero-length list, or a single empty string.
EmptyIn(variant, v) ==
    v = <<>> \/ (variant = "data" /\ v = <<"">>)

\* What the slot of the last call held before the call.
CallSlot == <<call.keys[1]>>

PreHas == Has(call.pre, CallSlot)

PreNode == Node(call.pre, CallSlot)

PreLeaf == PreHas /\ PreNode.kind # "branch"

PreBranch == PreHas /\ PreNode.kind = "branch"

\* The leaf of the slot is empty: "", [] or [""].
PreLeafEmpty ==
    /\ PreLeaf
    /\ \/ PreNode.kind = "list" /\ EmptyIn(tk, PreNode.val)
       \/ PreNode.kind = "scalar" /\ tk = "data" /\ PreNode.val = <<"">>

\* The path of the last call ends at its slot: [k] or [k, ""].
CallTerminal ==
    \/ Len(call.keys) = 1
    \/ Len(call.keys) = 2 /\ call.keys[2] = <<>>

\* The last call neither met a branch at its terminal slot nor skipped an
\* empty value over a non-empty leaf: it goes on to store.
NoConflictFound ==
    /\ call.n > 0
    /\ CallTerminal
    /\ \/ ~PreHas
       \/ PreLeaf /\ (~EmptyIn(tk, call.v) \/ PreLeafEmpty)

\* What a terminal call has to store at its slot.
TerminalEntry ==
    IF Len(call.keys) = 2
    THEN [path |-> CallSlot, kind |-> "list", val |-> call.v]
    ELSE IF Len(call.v) > 0
    THEN [path |-> CallSlot, kind |-> "scalar",
          val |-> <<IF tk = "data" THEN call.v[Len(call.v)] ELSE call.v[1]>>]
    ELSE [path |-> CallSlot, kind |-> "list", val |-> call.v]

sNested == SubSeq(kNestedOne, 1, 6)

sOne == SubSeq(kNestedOne, 8, 10)

sTags == SubSeq(kTags, 1, 4)

\* {"full_name":"Ada Lovelace","nested":{"one":"1"},"tags":["a","b"]}
ExampleTree ==
    {[path |-> <<kFullName>>, kind |-> "scalar", val |-> <<"Ada Lovelace">>],
     [path |-> <<sNested>>, kind |-> "branch", val |-> <<>>],
     [path |-> <<sNested, sOne>>, kind |-> "scalar", val |-> <<"1">>],
     [path |-> <<sTags>>, kind |-> "list", val |-> <<"a", "b">>]}

\* C1: when no conflict is found, a path [k, ""] stores the whole incoming
\* list at k, a path [k] with a non-empty list stores its last element (data
\* tree) or its first element (file tree), a path [k] with a zero-length list
\* stores the list, and nothing else of the tree changes; the form
\* full_name=Ada+Lovelace&nested[one]=1&tags[]=a&tags[]=b, pushed in any
\* order, builds full_name="Ada Lovelace", nested={one:"1"}, tags=["a","b"].
C1_TerminalStorage ==
    /\ NoConflictFound =>
        /\ call.err = NoErr
        /\ tree = Drop(call.pre, CallSlot) \cup {TerminalEntry}
    /\ (DOMAIN form = DOMAIN ExampleForm /\ Pushed = DOMAIN form) =>
        /\ call.err = NoErr
        /\ tree = ExampleTree

C1_Witness ==
    /\ DOMAIN form = {}
    /\ NoConflictFound
    /\ tk = "file"
    /\ Len(call.keys) = 1
    /\ Len(call.v) = 2
    /\ PreLeaf
    /\ Node(tree, CallSlot).val = <<call.v[1]>>

C4_Original ==
    (call.n > 0 /\ PreLeaf /\ Len(call.keys) > 1 /\ EmptyIn(tk, call.v)) =>
        /\ call.err = NoErr
        /\ tree = call.pre

\* C4, amended: a non-empty leaf at the slot, a path whose second segment is
\* empty and an empty incoming value make the call a no-op without error.
C4_EmptySkip ==
    (/\ call.n > 0
     /\ PreLeaf /\ ~PreLeafEmpty
     /\ Len(call.keys) > 1 /\ call.keys[2] = <<>>
     /\ EmptyIn(tk, call.v)) =>
        /\ call.err = NoErr
        /\ tree = call.pre

C4_Witness ==
    /\ call.n > 0
    /\ tk = "data"
    /\ PreLeaf /\ ~PreLeafEmpty
    /\ Len(call.keys) > 1 /\ call.keys[2] = <<>>
    /\ call.v = <<"">>
    /\ call.err = NoErr
    /\ tree = call.pre

\* C5: a branch at the slot and a leaf insertion there: a non-empty value
\* fails with the conflict error, an empty value returns no error and leaves
\* the branch and everything below it unchanged.
C5_BranchConflict ==
    (call.n > 0 /\ PreBranch /\ CallTerminal) =>
        IF EmptyIn(tk, call.v)
        THEN call.err = NoErr /\ tree = call.pre
        ELSE call.err = ErrMultiple

C5_Witness ==
    /\ call.n > 0
    /\ PreBranch
    /\ \E e \in call.pre : Len(e.path) = 2 /\ IsPrefix(CallSlot, e.path)
    /\ Len(call.keys) = 2 /\ call.keys[2] = <<>>
    /\ ~EmptyIn(tk, call.v)
    /\ call.err = ErrMultiple

----------------------------------------------------------------------------
(* Properties of the tokenizer *)

Brackets == {"[", "]"}

\* s without the characters of the set drop.
Without(s, drop) ==
    LET keep(c) == c \notin drop IN SelectSeq(s, keep)

RECURSIVE Flatten(_)
Flatten(ks) ==
    IF ks = <<>> THEN <<>> ELSE Head(ks) \o Flatten(Tail(ks))

\* n[s1]...[sk] from <<n, s1, ..., sk>>
RECURSIVE Bracketed(_)
Bracketed(ks) ==
    IF ks = <<>> THEN <<>>
    ELSE <<"[">> \o Head(ks) \o <<"]">> \o Bracketed(Tail(ks))

Join(ks) ==
    Head(ks) \o Bracketed(Tail(ks))

\* u[j..] continues a well-formed name; inside tells whether a bracket is open
\* and closed whether the previous character closed one.
RECURSIVE WellFormedFrom(_, _, _, _)
WellFormedFrom(u, j, inside, closed) ==
    IF j > Len(u) THEN ~inside
    ELSE IF u[j] = "[" THEN ~inside /\ WellFormedFrom(u, j + 1, TRUE, FALSE)
    ELSE IF u[j] = "]" THEN inside /\ WellFormedFrom(u, j + 1, FALSE, TRUE)
    ELSE (inside \/ ~closed) /\ WellFormedFrom(u, j + 1, inside, FALSE)

\* u is n[s1]...[sk], no bracket in n or in any si, k >= 0.
WellFormed(u) ==
    WellFormedFrom(u, 1, FALSE, FALSE)

\* C7: for every field name the tokenizer returns at least one segment, no
\* segment holds a space or a bracket, and the segments concatenated are the
\* name without its spaces and brackets; for a well-formed name n[s1]...[sk]
\* the segments joined with brackets are the name without its spaces (so they
\* are n, s1, ..., sk, an empty pair giving the empty segment), and a name
\* without brackets gives one segment.
C7_Tokenizer ==
    tpc = "done" =>
        /\ Len(keys) >= 1
        /\ \A j \in 1..Len(keys) : \A c \in 1..Len(keys[j]) :
                keys[j][c] \notin Brackets \cup {" "}
        /\ Flatten(keys) = Without(name, Brackets \cup {" "})
        /\ WellFormed(Without(name, {" "})) =>
                Join(keys) = Without(name, {" "})
        /\ Without(name, Brackets) = name => Len(keys) = 1

C7_Witness ==
    /\ tpc = "done"
    /\ name = <<"a", "[", " ", "]">>
    /\ keys = <<<<"a">>, <<>>>>

----------------------------------------------------------------------------
(* Properties of form runs *)

\* A field whose values are all non-empty strings.
NonEmptyField(v) ==
    Len(v) >= 1 /\ \A j \in 1..Len(v) : v[j] # ""

\* C2: a form that holds the key a and the key a[b], both with a non-empty
\* value, fails with a conflict error, whichever of the two is pushed first.
C2_ScalarAndBranch ==
    (/\ {kA, kAB} \subseteq Pushed
     /\ NonEmptyField(form[kA])
     /\ NonEmptyField(form[kAB])) => call.err # NoErr

\* Where push has to store the value v of a key tokenized to ks.
TargetEntry(ks, v) ==
    IF Len(ks) >= 2 /\ ks[Len(ks)] = <<>>
    THEN [path |-> SubSeq(ks, 1, Len(ks) - 1), kind |-> "list", val |-> v]
    ELSE [path |-> ks, kind |-> "scalar", val |-> <<v[Len(v)]>>]

\* No other key of the form shares the first segment of k.
OwnSlot(k) ==
    \A k2 \in (DOMAIN form) \ {k} : fetchIndexes(k2)[1] # fetchIndexes(k)[1]

\* C6: a key of more than 127 segments is dropped (no error, tree unchanged);
\* a key of at most 127 segments is mounted; the fields pushed before and
\* after a dropped key are mounted, and the build fails on no key that has
\* its first segment to itself.
C6_DepthGuard ==
    /\ (call.n > 0 /\ Len(call.keys) > maxLevel) =>
            call.err = NoErr /\ tree = call.pre
    /\ (call.n > 0 /\ Len(call.keys) <= maxLevel /\ ~PreHas) =>
            call.err = NoErr /\ TargetEntry(call.keys, call.v) \in tree
    /\ \A k \in Pushed :
            (Len(fetchIndexes(k)) <= maxLevel /\ OwnSlot(k)) =>
                TargetEntry(fetchIndexes(k), form[k]) \in tree
    /\ (\A k \in DOMAIN form : OwnSlot(k)) => call.err = NoErr

C6_Witness ==
    /\ call.n = 3
    /\ Len(call.keys) = maxLevel + 1
    /\ kDeepIn \in Pushed
    /\ Cardinality(tree) > maxLevel
    /\ call.err = NoErr
    /\ tree = call.pre

----------------------------------------------------------------------------
(* Properties of the handler's uploads *)

\* parseMultipart has returned its (data, uploads) to request r without error.
ParsedMultipart(r) ==
    up[r].set /\ out[r].parsed

\* The descriptors reachable from a file tree: a leaf holds one descriptor or
\* a list of them, a branch holds none itself.
DescsOfTree(t) ==
    UNION {{n.val[j] : j \in 1..Len(n.val)} : n \in t}

\* The descriptors of a flat list.
DescsOfList(list) ==
    1..Len(list)

\* C8: when the handling of a multipart request that materialized at least one
\* temp file has ended, Uploads.Clear has been invoked exactly once and none
\* of the request's temp files is left on disk, whatever the exit path.
C8_ReleaseOnEveryExit ==
    \A r \in Reqs :
        hpc[r] = "done" /\ made[r] # {} =>
            /\ out[r].cleared = 1
            /\ made[r] \cap fsys = {}

\* C9 as stated: in a returned Uploads collection the descriptors reachable
\* from the File Tree are exactly the descriptors of the flat list.
C9_Original ==
    \A r \in Reqs :
        ParsedMultipart(r) =>
            DescsOfTree(up[r].tree) = DescsOfList(up[r].list)

\* C9: in a returned Uploads collection every descriptor reachable from the
\* File Tree is in the flat list, and the flat list holds one descriptor for
\* each file part of the request (in the tree or not).
C9_TreeInList ==
    \A r \in Reqs :
        ParsedMultipart(r) =>
            /\ DescsOfTree(up[r].tree) \subseteq DescsOfList(up[r].list)
            /\ Len(up[r].list) = SumLen(req[r].files, DOMAIN req[r].files)

C9_Witness ==
    /\ ParsedMultipart(1)
    /\ DOMAIN req[1].files = {kFileList}
    /\ \E n \in up[1].tree : n.kind = "list" /\ Len(n.val) = 2
    /\ Len(up[1].list) = 2

\* C10: after a multipart body is parsed successfully, every file part of the
\* request has a descriptor, and the descriptor of a part whose Open succeeded
\* has the part's declared filename as Name, the part's number of content
\* bytes as Size, Error 0 and a non-empty TempFilename, which names an
\* existing file as long as Clear has not been called.
C10_Descriptors ==
    \A r \in Reqs :
        ParsedMultipart(r) =>
            /\ Len(up[r].opened) = Len(up[r].list)
            /\ \A k \in DOMAIN req[r].files :
                 \A i \in 1..Len(req[r].files[k]) :
                   \E j \in 1..Len(up[r].list) :
                     up[r].list[j].header = req[r].files[k][i]
            /\ \A j \in 1..Len(up[r].list) :
                 up[r].opened[j] = "ok" =>
                    LET d == up[r].list[j]
                    IN  /\ d.Name = d.header.Filename
                        /\ d.Size = d.header.Size
                        /\ d.Error = uploadErrorOK
                        /\ d.TempFilename # NoTemp
                        /\ out[r].cleared = 0 => d.TempFilename \in fsys

C10_Witness ==
    /\ ParsedMultipart(1)
    /\ hpc[1] = "defer"
    /\ out[1].status = 200
    /\ out[1].cleared = 0
    /\ up[1].opened = <<"ok", "ok">>
    /\ up[1].list[1].Name = "demo.png"
    /\ up[1].list[1].Size = 4
    /\ up[1].list[1].TempFilename \in fsys

\* The regular fields of request r conflict in some order of the range loop.
FieldsConflict(r) ==
    \E ord \in Perms(DOMAIN req[r].fields) :
        pushAll({}, req[r].fields, ord).err # NoErr

\* The body request r forwards is the serialized Data Tree of its fields.
BodyIsDataTree(r) ==
    \E ord \in Perms(DOMAIN req[r].fields) :
        LET d == pushAll({}, req[r].fields, ord)
        IN  d.err = NoErr /\ out[r].body = packDataTree(d.tree)

\* C11: a failed Open leaves its error code in the descriptor (4 when the
\* part cannot be opened, 6 when the temp file cannot be created, 7 when the
\* copy fails); it never fails the multipart parse (the parse fails after the
\* Open loop only on a conflict of the regular fields), every upload of the
\* request is still opened, the successful ones materialized, and the Data
\* Tree of the regular fields is built and returned.
C11_OpenFailure ==
    \A r \in Reqs :
        /\ \A j \in 1..Len(up[r].opened) :
             LET d == up[r].list[j]
                 o == up[r].opened[j]
             IN  /\ o = "nofile" =>
                        d.Error = uploadErrorNoFile /\ d.TempFilename = NoTemp
                 /\ o = "notmp" =>
                        d.Error = uploadErrorNoTmpDir /\ d.TempFilename = NoTemp
                 /\ o = "cantwrite" =>
                        d.Error = uploadErrorCantWrite /\ d.TempFilename # NoTemp
                 /\ o = "ok" =>
                        d.Error = uploadErrorOK /\ d.TempFilename \in made[r]
        /\ (up[r].set /\ ~out[r].parsed /\ out[r].status = 400) =>
               FieldsConflict(r)
        /\ ParsedMultipart(r) =>
               /\ Len(up[r].opened) = Len(up[r].list)
               /\ BodyIsDataTree(r)

C11_Witness ==
    /\ ParsedMultipart(1)
    /\ up[1].opened = <<"cantwrite", "ok">>
    /\ up[1].list[1].Error = uploadErrorCantWrite
    /\ up[1].list[2].Error = uploadErrorOK
    /\ up[1].list[2].TempFilename \in fsys
    /\ DOMAIN req[1].fields = {kA}
    /\ out[1].body # packDataTree({})

\* C12: a call of Uploads.Clear removes exactly the existing temp files the
\* descriptors of the flat list refer to (descriptors without a temp file and
\* files already missing are passed over), after a call none of them exists,
\* and a further call changes nothing.
C12_ClearIdempotent ==
    /\ [](\A r \in Reqs :
            out[r].cleared >= 1 => ClearedFiles(up[r].list) \cap fsys = {})
    /\ [][\A r \in Reqs :
            out'[r].cleared = out[r].cleared + 1 =>
                /\ fsys' = fsys \ ClearedFiles(up[r].list)
                /\ out[r].cleared >= 1 => fsys' = fsys]_vars

C12_Witness ==
    /\ out[1].cleared = 2
    /\ \E j \in 1..Len(up[1].list) : up[1].list[j].TempFilename = NoTemp
    /\ \E j \in 1..Len(up[1].list) : up[1].list[j].TempFilename \in made[1]
    /\ fsys = {ForeignFile}

\* The temp files request r has materialized and not released.
Owned(r) ==
    IF out[r].cleared > 0 THEN {} ELSE made[r] \cap fsys

\* The temp files the descriptors of request r refer to while r is handled.
Holding(r) ==
    IF hpc[r] \in {"open", "proto", "exec", "wait", "defer"}
    THEN ClearedFiles(up[r].list)
    ELSE {}

\* The descriptors of request r that have a temp file.
WithTemp(r) ==
    {j \in 1..Len(up[r].list) : up[r].list[j].TempFilename # NoTemp}

\* C13: with requests handled concurrently, a materialized upload gets a temp
\* path that no file existing at that moment has, so the temp paths held by
\* the descriptors of the requests being handled are pairwise different, and
\* the Clear of one request removes no temp file of another request.
C13_TempIsolation ==
    /\ [](/\ \A r, q \in Reqs : r # q => Holding(r) \cap Holding(q) = {}
          /\ \A r \in Reqs : \A i, j \in WithTemp(r) :
                i # j => up[r].list[i].TempFilename # up[r].list[j].TempFilename)
    /\ [][\A r \in Reqs :
            /\ \A j \in 1..Len(up[r].list) :
                 (/\ up[r].next = j
                  /\ up'[r].next = j + 1
                  /\ up'[r].list[j].TempFilename # NoTemp) =>
                     up'[r].list[j].TempFilename \notin fsys
            /\ out'[r].cleared # out[r].cleared =>
                 \A q \in Reqs \ {r} : Owned(q) \subseteq fsys']_vars

C13_Witness ==
    /\ hpc[1] = "done" /\ out[1].cleared = 1
    /\ hpc[2] = "wait"
    /\ made[1] # {}
    /\ Owned(2) # {}
    /\ Owned(2) \subseteq fsys

----------------------------------------------------------------------------
(* Properties of the classifier and of the body transformer *)

\* The content type has the media type p among its pieces.
Mentions(ct, p) ==
    p \in {ct[j] : j \in DOMAIN ct}

\* C14: contentType gives every (method, content-type) one of the four
\* classes: None exactly when the method is HEAD or OPTIONS; for the other
\* methods URLEncoded when the content type contains
\* application/x-www-form-urlencoded, else Multipart when it contains
\* multipart/form-data (parameters allowed), else Stream.
C14_Classifier ==
    \A r \in Reqs :
        hpc[r] = "classified" =>
            LET mt == req[r].method
                ct == req[r].ct
                class == out[r].class
                urlenc == Mentions(ct, "application/x-www-form-urlencoded")
                multi == Mentions(ct, "multipart/form-data")
            IN  /\ class \in {contentNone, contentStream, contentMultipart,
                              contentURLEncoded}
                /\ class = contentNone <=> mt \in {"HEAD", "OPTIONS"}
                /\ mt \notin {"HEAD", "OPTIONS"} =>
                      /\ urlenc => class = contentURLEncoded
                      /\ (~urlenc /\ multi) => class = contentMultipart
                      /\ (~urlenc /\ ~multi) => class = contentStream

C14_Witness ==
    /\ hpc[1] = "classified"
    /\ req[1].method = "PUT"
    /\ Mentions(req[1].ct, "multipart/form-data")
    /\ Mentions(req[1].ct, "application/x-www-form-urlencoded")
    /\ out[1].class = contentURLEncoded

\* Request r has passed transformBody without error.
Transformed(r) ==
    hpc[r] \in {"proto", "exec", "wait", "defer"}
        \/ (hpc[r] = "done" /\ ~(out[r].status = 400 /\ out[r].execs = 0))

\* C15: for a HEAD or OPTIONS request, whatever its content type and body,
\* transformBody fails on no body, builds no Uploads and creates no temp
\* file, and what it hands on for the worker is an empty body, parsed = false
\* and no uploads buffer.
C15_HeadOptionsUntouched ==
    \A r \in Reqs :
        req[r].method \in {"HEAD", "OPTIONS"} =>
            /\ made[r] = {}
            /\ ~up[r].set
            /\ (out[r].status = 400 /\ out[r].execs = 0) => req[r].b64 = "bad"
            /\ Transformed(r) =>
                  /\ out[r].body = <<>>
                  /\ ~out[r].parsed
                  /\ out[r].uploads = <<>>

C15_Witness ==
    /\ req[1].method = "HEAD"
    /\ req[1].ct = ctMulti
    /\ DOMAIN req[1].files # {}
    /\ DOMAIN req[1].fields = {kA, kAB}
    /\ hpc[1] = "wait"
    /\ out[1].execs = 1
    /\ out[1].body = <<>>

\* The class transformBody gives request r.
ClassOf(r) ==
    contentType(req[r].method, ToLower(req[r].ct))

\* C16: for a request classified Stream, the body handed on for the worker is
\* the request body as it came, or the text it is the base64 encoding of when
\* the event is flagged base64; no tree and no Uploads is built, parsed is
\* false and no uploads buffer is sent.
C16_StreamPassThrough ==
    \A r \in Reqs :
        (hpc[r] # "off" /\ ClassOf(r) = contentStream) =>
            /\ made[r] = {}
            /\ ~up[r].set
            /\ (out[r].status = 400 /\ out[r].execs = 0) => req[r].b64 = "bad"
            /\ Transformed(r) =>
                  /\ out[r].body = IF req[r].b64 = "no"
                                   THEN RequestBody(req[r])
                                   ELSE <<"text", RequestBody(req[r])[2]>>
                  /\ ~out[r].parsed
                  /\ out[r].uploads = <<>>

C16_Witness ==
    /\ req[1].method = "POST"
    /\ req[1].ct = ctJSON
    /\ req[1].b64 = "ok"
    /\ hpc[1] = "wait"
    /\ out[1].body = <<"text", "payload">>

\* The key path of each key the requests use.
PathOf ==
    [k \in FormKeys \cup FileKeys |-> fetchIndexes(k)]

\* The key path ks names a leaf of the root: [name] or [name, ""].
LeafPath(ks) ==
    Len(ks) = 1 \/ (Len(ks) = 2 /\ ks[2] = <<>>)

\* The key path ks goes through a named entry of a container at the root.
ContainerPath(ks) ==
    Len(ks) >= 2 /\ Len(ks) <= maxLevel /\ ks[2] # <<>>

\* The form f (all of its values non-empty) uses one name both as a leaf and
\* as a container: a conflict in whatever order its keys are mounted.
UsesLeafAsContainer(f) ==
    \E k1, k2 \in DOMAIN f :
        LET p1 == PathOf[k1]
            p2 == PathOf[k2]
        IN  LeafPath(p1) /\ ContainerPath(p2) /\ p1[1] = p2[1]

\* The body of request r cannot be decoded: its base64 is invalid, or it is to
\* be parsed as a form and is malformed, or its regular fields or its file
\* fields conflict.
Undecodable(r) ==
    \/ req[r].b64 = "bad"
    \/ /\ ClassOf(r) \in {contentURLEncoded, contentMultipart}
       /\ \/ ~req[r].wellformed
          \/ UsesLeafAsContainer(req[r].fields)
          \/ /\ ClassOf(r) = contentMultipart
             /\ UsesLeafAsContainer(req[r].files)

\* C17: when the body of a request cannot be decoded (invalid base64, a body
\* that does not parse as its content type demands, a conflict in the tree
\* build), the handling never gets past transformBody: Exec is not called, no
\* body, tree or uploads buffer is handed on, and the handler returns status
\* 400 with a nil error. Every return with 400 before Exec hands on nothing.
C17_DecodeFailure ==
    \A r \in Reqs :
        /\ (hpc[r] # "off" /\ Undecodable(r)) =>
              /\ hpc[r] \in {"decode", "transform", "open", "done"}
              /\ out[r].execs = 0
              /\ out[r].body = <<>> /\ ~out[r].parsed /\ out[r].uploads = <<>>
              /\ hpc[r] = "done" => out[r].status = 400 /\ out[r].goerr = "nil"
        /\ (hpc[r] = "done" /\ out[r].status = 400 /\ out[r].execs = 0) =>
              /\ out[r].body = <<>> /\ ~out[r].parsed /\ out[r].uploads = <<>>
              /\ out[r].goerr = "nil"

C17_Witness ==
    /\ req[1].method = "POST"
    /\ req[1].ct = ctForm
    /\ req[1].b64 = "ok"
    /\ DOMAIN req[1].fields = {kA, kAB}
    /\ hpc[1] = "done"
    /\ out[1].status = 400
    /\ out[1].execs = 0

\* C18: the uploads buffer handed on for the worker is produced exactly for a
\* Multipart request with at least one file part; it is empty for None,
\* Stream and URLEncoded requests and for a multipart body without file part.
C18_UploadsOnlyWithFiles ==
    \A r \in Reqs :
        Transformed(r) =>
            (out[r].uploads # <<>> <=>
                (ClassOf(r) = contentMultipart /\ DOMAIN req[r].files # {}))

\* Every regular field of request r is dropped by the depth guard (so also: r
\* has no regular field).
AllFieldsDropped(r) ==
    \A k \in DOMAIN req[r].fields : Len(PathOf[k]) > maxLevel

\* C19: a Data Tree without entries is serialized as the two bytes {}, and a
\* url-encoded or multipart request without regular fields, or with regular
\* fields that the depth guard drops, hands on {} as the body.
C19_EmptyTreeBody ==
    /\ packDataTree({}) = <<"{", "}">>
    /\ \A r \in Reqs :
          (/\ Transformed(r)
           /\ ClassOf(r) \in {contentURLEncoded, contentMultipart}
           /\ AllFieldsDropped(r)) =>
                out[r].body = <<"{", "}">> /\ out[r].parsed

C19_Witness ==
    /\ req[1].method = "POST"
    /\ req[1].ct = ctForm
    /\ DOMAIN req[1].fields = {kDeepOut}
    /\ hpc[1] = "wait"
    /\ out[1].body = <<"{", "}">>

\* C20: within a request Clear does not run before the worker pool is done
\* with it: from the return of transformBody until the worker's response or
\* failure is there, every temp file the request materialized exists and
\* Clear has not run; Clear runs only at the handler's return, when the
\* gateway response (its status) has been built.
C20_ReleaseAfterResponse ==
    /\ [](\A r \in Reqs :
            hpc[r] \in {"proto", "exec", "wait"} =>
                /\ out[r].cleared = 0
                /\ made[r] \subseteq fsys
                /\ out[r].status = 0)
    /\ [][\A r \in Reqs :
            out'[r].cleared # out[r].cleared =>
                /\ hpc[r] = "defer" /\ hpc'[r] = "done"
                /\ out[r].status # 0
                /\ out'[r].status = out[r].status]_vars

C20_Witness ==
    /\ hpc[1] = "wait"
    /\ out[1].execs = 1
    /\ out[1].cleanup
    /\ Cardinality(made[1]) = 2
    /\ made[1] \subseteq fsys

----------------------------------------------------------------------------
(* Properties of the order of the fields *)

\* The range loop over the fields has returned: every field is pushed, or
\* a push has failed.
FormDone ==
    call.err # NoErr \/ Pushed = DOMAIN form

\* What parsePostForm / parseMultipartData return in this run: (data, nil),
\* or (nil, err).
Outcome ==
    IF call.err # NoErr THEN [tree |-> {}, err |-> call.err]
    ELSE [tree |-> tree, err |-> NoErr]

\* C21: the outcome of building the data tree of a form (the tree, or the
\* conflict error) is the same for every order in which the range loop
\* visits the fields.
C21_OrderIndependent ==
    FormDone =>
        \A p \in Perms(DOMAIN form) : pushAll({}, form, p) = Outcome

----------------------------------------------------------------------------
(* Deep runs: mount called with paths one segment longer than in the mount  *)
(* runs, push called on a file tree, and the form runs                      *)

DeepSegs == {<<"a">>, <<>>}

\* The paths of the deep calls: a named first segment, then any segments.
DeepPaths ==
    {p \in SeqsUpTo(DeepSegs, MaxPathLen + 1) : Len(p) >= 1 /\ p[1] # <<>>}

DataMountDeep ==
    \E i \in DeepPaths, v \in DataVals \cup {<<>>} : DoMount("data", i, v)

FileMountDeep ==
    \E i \in DeepPaths, v \in FileVals(call.n) \cup {<<>>} :
        DoMount("file", i, v)

\* fileTree.push(k, files), as parseUploads calls it for a key of the form.
FilePush ==
    \E k \in FileKeys, v \in FileVals(call.n) :
        LET r == push("file", tree, k, v)
        IN  /\ tk = "file"
            /\ DOMAIN form = {}
            /\ call.n < MaxMounts
            /\ call.err = NoErr
            /\ tree' = r.tree
            /\ call' = [n |-> call.n + 1, pre |-> tree, keys |-> PathOf[k],
                        v |-> v, err |-> r.err]
            /\ UNCHANGED <<tk, tpc, name, keys, form, order>>
            /\ UNCHANGED handlerVars

NextDeep == DataMountDeep \/ FileMountDeep \/ FilePush \/ NextForm

SpecDeep == InitTerminal /\ [][NextDeep]_vars

----------------------------------------------------------------------------
(* Properties of a failed call *)

\* C22: a push or mount call that returns an error leaves the tree (data
\* tree or file tree) as it was before the call, at every level of the path.
C22_ErrorLeavesTree ==
    (call.n > 0 /\ call.err # NoErr) => tree = call.pre

\* The error is reported below the first level: the first segment holds a
\* branch and the path goes on with a named segment.
C22_Witness ==
    /\ call.err = ErrMultiple
    /\ call.keys = <<<<"a">>, <<"a">>>>
    /\ IsBranchAt(call.pre, <<<<"a">>>>)
    /\ IsBranchAt(call.pre, <<<<"a">>, <<"a">>>>)
    /\ tree = call.pre

====
